---- MODULE Spec2Model ----
(***************************************************************************)
(* Model of cpplint/nitpick.py: the include sorter (sort_includes,         *)
(* sort_includes_batch, HFile, is_own_header).                             *)
(*                                                                         *)
(* A line of text is a sequence of one-character strings; a file is a      *)
(* sequence of lines.  sort_includes is modelled as its for-loop: one      *)
(* action per branch of the loop body, one for the code after the loop.    *)
(***************************************************************************)
EXTENDS Integers, Sequences, FiniteSets, TLC

(***************************************************************************)
(* Characters and Python string primitives.                                *)
(***************************************************************************)

\* The characters the model uses, in ascending order of code point.
CODE_POINT_ORDER ==
  << "\t", " ", "\"", "#", ".", "/", "<", ">", "A", "B", "_", "a", "b", "c",
     "d", "e", "h", "i", "l", "n", "p", "s", "t", "u", "x" >>

\* The rank of ord(c): Ord(c) < Ord(d) exactly when ord(c) < ord(d).
Ord(c) == CHOOSE i \in 1..Len(CODE_POINT_ORDER) : CODE_POINT_ORDER[i] = c

\* The characters the regular expression class \s matches.
IsSpace(c) == c \in {" ", "\t"}

\* unicode.lower() on one character.
LowerChar(c) == CASE c = "A" -> "a" [] c = "B" -> "b" [] OTHER -> c

\* s.lower()
Lower(s) == [i \in 1..Len(s) |-> LowerChar(s[i])]

\* s[i:] with a 1-based i (the empty string when i is past the end).
From(s, i) == IF i > Len(s) THEN <<>> ELSE SubSeq(s, i, Len(s))

\* s[:i]: the first i characters of s.
Upto(s, i) == IF i < 1 THEN <<>> ELSE SubSeq(s, 1, i)

\* s.startswith(p, i-1): p occurs in s at the 1-based position i.
StartsWithAt(s, p, i) ==
  /\ i + Len(p) - 1 <= Len(s)
  /\ \A k \in 1..Len(p) : s[i + k - 1] = p[k]

\* s.endswith(p)
EndsWith(s, p) ==
  /\ Len(p) <= Len(s)
  /\ \A k \in 1..Len(p) : s[Len(s) - Len(p) + k] = p[k]

\* The first position >= i of s that holds no whitespace (Len(s)+1 if none).
RECURSIVE SkipSpace(_, _)
SkipSpace(s, i) ==
  IF i <= Len(s) /\ IsSpace(s[i]) THEN SkipSpace(s, i + 1) ELSE i

\* The last position <= i of s that holds no whitespace (0 if none).
RECURSIVE SkipSpaceBack(_, _)
SkipSpaceBack(s, i) ==
  IF i >= 1 /\ IsSpace(s[i]) THEN SkipSpaceBack(s, i - 1) ELSE i

\* s[a-1:b] with 1-based a and b (empty when a > b).
Slice(s, a, b) == IF a > b THEN <<>> ELSE SubSeq(s, a, b)

\* s.strip()
Strip(s) == Slice(s, SkipSpace(s, 1), SkipSpaceBack(s, Len(s)))

\* s < t for Python strings: lexicographic on code points.
RECURSIVE StrLess(_, _)
StrLess(s, t) ==
  IF t = <<>> THEN FALSE
  ELSE IF s = <<>> THEN TRUE
  ELSE IF s[1] # t[1] THEN Ord(s[1]) < Ord(t[1])
  ELSE StrLess(Tail(s), Tail(t))

\* sorted(S) for a set of strings S.
\* min(S) for a non-empty set of strings S.
Least(S) == CHOOSE x \in S : \A y \in S \ {x} : StrLess(x, y)

\* sorted(S) for a set of strings S, given its least element.
RECURSIVE SortedFrom(_, _)
SortedFrom(S, m) ==
  IF S = {m} THEN <<m>> ELSE <<m>> \o SortedFrom(S \ {m}, Least(S \ {m}))

Sorted(S) == IF S = {} THEN <<>> ELSE SortedFrom(S, Least(S))

\* The last position <= i of s that holds the character c (0 if none): rfind.
RECURSIVE RFind(_, _, _)
RFind(s, c, i) ==
  IF i < 1 THEN 0 ELSE IF s[i] = c THEN i ELSE RFind(s, c, i - 1)

\* sep.join(parts) for a sequence of strings.
RECURSIVE Join(_, _)
Join(sep, parts) ==
  IF parts = <<>> THEN <<>>
  ELSE IF Len(parts) = 1 THEN parts[1]
  ELSE parts[1] \o sep \o Join(sep, Tail(parts))

\* s.split(c) for a one-character separator c.
\* The first position >= i of s that holds the character c (Len(s)+1 if none).
RECURSIVE Find(_, _, _)
Find(s, c, i) ==
  IF i > Len(s) THEN i ELSE IF s[i] = c THEN i ELSE Find(s, c, i + 1)

RECURSIVE SplitAt(_, _, _)
SplitAt(s, c, k) ==
  IF k > Len(s) THEN <<s>>
  ELSE <<Upto(s, k - 1)>>
         \o SplitAt(From(s, k + 1), c, Find(From(s, k + 1), c, 1))

Split(s, c) == SplitAt(s, c, Find(s, c, 1))

(***************************************************************************)
(* os.path (posixpath) functions used by is_own_header and                 *)
(* is_project_file, on relative paths.                                     *)
(***************************************************************************)

\* os.path.splitext(p)[0]
SplitExtAt(p, sepIndex, dotIndex) ==
  IF /\ dotIndex > sepIndex
     /\ \E k \in (sepIndex + 1)..(dotIndex - 1) : p[k] # "."
  THEN Upto(p, dotIndex - 1)
  ELSE p

SplitExtRoot(p) == SplitExtAt(p, RFind(p, "/", Len(p)), RFind(p, ".", Len(p)))

\* The loop of os.path.normpath over the components of a relative path.
RECURSIVE NormComps(_, _)
NormComps(comps, new_comps) ==
  IF comps = <<>> THEN new_comps
  ELSE LET comp == Head(comps)
       IN  IF comp = <<>> \/ comp = <<".">> THEN NormComps(Tail(comps), new_comps)
           ELSE IF \/ comp # <<".", ".">>
                   \/ new_comps = <<>>
                   \/ new_comps[Len(new_comps)] = <<".", ".">>
                THEN NormComps(Tail(comps), Append(new_comps, comp))
                ELSE NormComps(Tail(comps), Upto(new_comps, Len(new_comps) - 1))

\* os.path.normpath(path) for a relative path.
\* "path or dot"
OrDot(path) == IF path = <<>> THEN <<".">> ELSE path

NormPath(path) == OrDot(Join(<<"/">>, NormComps(Split(path, "/"), <<>>)))

\* len(os.path.commonprefix([a, b])) for two lists of components.
RECURSIVE CommonPrefixLen(_, _)
CommonPrefixLen(a, b) ==
  IF a = <<>> \/ b = <<>> \/ a[1] # b[1] THEN 0
  ELSE 1 + CommonPrefixLen(Tail(a), Tail(b))

\* os.path.relpath(path, start) for relative paths that stay below the
\* current directory (the components of the current directory are a common
\* prefix of both absolute paths and cancel out).
RelList(start_list, path_list, i) ==
  [k \in 1..(Len(start_list) - i) |-> <<".", ".">>] \o From(path_list, i + 1)

RelLists(start_list, path_list) ==
  OrDot(Join(<<"/">>, RelList(start_list, path_list,
                               CommonPrefixLen(start_list, path_list))))

RelPath(path, start) ==
  RelLists(NormComps(Split(start, "/"), <<>>), NormComps(Split(path, "/"), <<>>))

\* os.path.join(a, b) for a relative b and a non-empty a.
PathJoin(a, b) == IF a[Len(a)] = "/" THEN a \o b ELSE a \o <<"/">> \o b

(***************************************************************************)
(* HFile: one parsed include directive.                                    *)
(***************************************************************************)

INCLUDE == <<"i", "n", "c", "l", "u", "d", "e">>
HASH_INCLUDE == <<"#">> \o INCLUDE

\* The value for "_RE_PATTERN_INCLUDE.match(include_str) is None".
NoMatch == [ok |-> FALSE, name |-> <<>>, is_system |-> FALSE, post_str |-> <<>>]

\* The end of the longest run of [^>"\s] characters of s starting at i.
RECURSIVE SkipName(_, _)
SkipName(s, i) ==
  IF i <= Len(s) /\ ~IsSpace(s[i]) /\ s[i] \notin {">", "\""}
  THEN SkipName(s, i + 1) ELSE i

\* The groups of a match whose opening delimiter is at i3, whose target
\* is s[i4 .. i5-1] and whose closing delimiter is looked for at i6.
MatchGroups(s, i3, i4, i5, i6) ==
  IF i6 <= Len(s) /\ s[i6] \in {">", "\""}
  THEN [ok        |-> TRUE,
        name      |-> Slice(s, i4, i5 - 1),
        is_system |-> (s[i3] = "<"),
        post_str  |-> From(s, i6 + 1)]
  ELSE NoMatch

\* ([^>"\s]*)\s*[>"](.*$)  from position i4 on.
MatchName(s, i3, i4, i5) == MatchGroups(s, i3, i4, i5, SkipSpace(s, i5))

\* ([<"])\s*  at position i3.
MatchOpen(s, i3) ==
  IF i3 <= Len(s) /\ s[i3] \in {"<", "\""}
  THEN MatchName(s, i3, SkipSpace(s, i3 + 1), SkipName(s, SkipSpace(s, i3 + 1)))
  ELSE NoMatch

\* include\s*  at position i2.
MatchInclude(s, i2) ==
  IF StartsWithAt(s, INCLUDE, i2)
  THEN MatchOpen(s, SkipSpace(s, i2 + Len(INCLUDE)))
  ELSE NoMatch

\* #\s*  at position i1.
MatchHash(s, i1) ==
  IF i1 <= Len(s) /\ s[i1] = "#" THEN MatchInclude(s, SkipSpace(s, i1 + 1))
  ELSE NoMatch

\* HFile.__init__: match  ^\s*#\s*include\s*([<"])\s*([^>"\s]*)\s*[>"](.*$)
\* against the line.  No item of the pattern can start with a character the
\* item before it accepts, so the greedy left-to-right scan is the match.
HFile(include_str) == MatchHash(include_str, SkipSpace(include_str, 1))

\* The rendered form without the text after the closing delimiter.
HFile_repr_no_post_str(hfile) ==
  IF hfile.is_system
  THEN HASH_INCLUDE \o <<" ", "<">> \o hfile.name \o <<">">>
  ELSE HASH_INCLUDE \o <<" ", "\"">> \o hfile.name \o <<"\"">>

\* HFile.__repr__
HFile_repr(hfile) ==
  IF hfile.is_system
  THEN HASH_INCLUDE \o <<" ", "<">> \o hfile.name \o <<">">> \o hfile.post_str
  ELSE HASH_INCLUDE \o <<" ", "\"">> \o hfile.name \o <<"\"">> \o hfile.post_str

\* line.strip().startswith(u'#include')
IsIncludeLine(line) == StartsWithAt(Strip(line), HASH_INCLUDE, 1)

\* line.strip() is empty
IsBlankLine(line) == Strip(line) = <<>>

(***************************************************************************)
(* State.                                                                  *)
(***************************************************************************)

VARIABLES
  filename,          \* sort_includes: the `filename` argument
  lines,             \* sort_includes: the `lines` argument
  ROOT,              \* the global _ROOT (the empty string models None)
  classifier,        \* cpplint._ClassifyInclude for this file, as a table
  keys_order,        \* the iteration order of by_type.keys()
  disk,              \* the files and directories os.path.isfile/isdir see
  lnum,              \* sort_includes: number of lines the loop has consumed
  in_batch,          \* sort_includes: local in_batch
  includes,          \* sort_includes: local includes (hkey -> HFile)
  includes_batches,  \* sort_includes: local includes_batches
  new_lines,         \* sort_includes: local new_lines
  stderr,            \* what was written to sys.stderr, one entry per write
  exc,               \* the exception raised ("" for none)
  pc,                \* where the running function is
  a_line,            \* correct_spacing: the `a_line` argument
  result,            \* correct_spacing: the returned line
  modules,           \* stylify: args.modules, in its iteration order
  no_edit,           \* stylify: args.no_edit
  files,             \* stylify: the `files` argument
  contents,          \* the content of the files stylify can open, by path
  stdin,             \* what sys.stdin.read() returns
  stdout,            \* what was written to sys.stdout
  files_done         \* stylify: how many entries of `files` the loop has left behind

inputs == <<filename, lines, ROOT, classifier, keys_order, disk, a_line, result,
            modules, no_edit, files, contents, stdin, stdout, files_done>>

vars == <<filename, lines, ROOT, classifier, keys_order, disk, lnum, in_batch,
          includes, includes_batches, new_lines, stderr, exc, pc, a_line,
          result, modules, no_edit, files, contents, stdin, stdout,
          files_done>>

(***************************************************************************)
(* Include types and sections.                                             *)
(***************************************************************************)

LIKELY_MY_HEADER   == "LIKELY_MY_HEADER"
POSSIBLE_MY_HEADER == "POSSIBLE_MY_HEADER"
C_SYS_HEADER       == "C_SYS_HEADER"
CPP_SYS_HEADER     == "CPP_SYS_HEADER"
LIBS_HEADER        == "LIBS_HEADER"
OTHER_HEADER       == "OTHER_HEADER"

IncludeTypes == {LIKELY_MY_HEADER, POSSIBLE_MY_HEADER, C_SYS_HEADER,
                 CPP_SYS_HEADER, LIBS_HEADER, OTHER_HEADER}

\* The sections with the C++ system headers ahead of the C system headers.
SECTIONS_ORDER_cpp_first ==
  << {LIKELY_MY_HEADER, POSSIBLE_MY_HEADER},
     {CPP_SYS_HEADER},
     {C_SYS_HEADER},
     {LIBS_HEADER},
     {OTHER_HEADER} >>

SECTIONS_ORDER ==
  << {LIKELY_MY_HEADER, POSSIBLE_MY_HEADER},
     {C_SYS_HEADER},
     {CPP_SYS_HEADER},
     {LIBS_HEADER},
     {OTHER_HEADER} >>

\* classify_include(FileInfo(filename), include, is_system): the injected
\* header classifier, a deterministic function of its arguments.
classify_include(fname, include, is_system) == classifier[<<include, is_system>>]

(***************************************************************************)
(* is_own_header, is_project_file.                                         *)
(***************************************************************************)

TEST_SUFFIX == <<"_", "t", "e", "s", "t">>

\* "if src_pref.endswith('_test'): src_pref = src_pref[:-5]"
StripTestSuffix(src_pref) ==
  IF EndsWith(src_pref, TEST_SUFFIX)
  THEN Upto(src_pref, Len(src_pref) - Len(TEST_SUFFIX))
  ELSE src_pref

\* "if _ROOT: src_file = os.path.relpath(src_file, _ROOT)"
RelativeToRoot(src_file) ==
  IF ROOT # <<>> THEN RelPath(src_file, ROOT) ELSE src_file

is_own_header(src_file, include) ==
  NormPath(SplitExtRoot(include))
    = StripTestSuffix(NormPath(SplitExtRoot(RelativeToRoot(src_file))))

\* "if _ROOT: ... = os.path.join(_ROOT, ...)"
UnderRoot(path) == IF ROOT # <<>> THEN PathJoin(ROOT, path) ELSE path

\* os.path.isfile(path), os.path.isdir(path)
IsFile(path) == NormPath(path) \in disk.files
IsDir(path) == NormPath(path) \in disk.dirs

\* is_project_file for the normalised path.
IsProjectPath(norm) ==
  IsFile(UnderRoot(norm)) \/ IsDir(UnderRoot(Split(norm, "/")[1]))

is_project_file(file_path) == IsProjectPath(NormPath(file_path))

(***************************************************************************)
(* sort_includes_batch.                                                    *)
(***************************************************************************)

\* "if inc_type in (LIKELY, POSSIBLE): if not is_own_header(filename, name):
\*    inc_type = OTHER"
CheckOwnHeader(fname, name, inc_type) ==
  IF /\ inc_type \in {LIKELY_MY_HEADER, POSSIBLE_MY_HEADER}
     /\ ~is_own_header(fname, name)
  THEN OTHER_HEADER
  ELSE inc_type

\* The type sort_includes_batch files the record `hfile` of key `name` under.
BatchType(fname, name, hfile) ==
  CheckOwnHeader(fname, name,
                 classify_include(fname, hfile.name, hfile.is_system))

\* The first loop of sort_includes_batch: for every key, in sorted order,
\* the type and the repr appended to by_type[type].
TypedIncludes(fname, incs, names) ==
  [i \in 1..Len(names) |->
     [inc_type |-> BatchType(fname, names[i], incs[names[i]]),
      repr     |-> HFile_repr(incs[names[i]])]]

\* The types of a sequence of typed includes, without repetition, in the
\* order of their first occurrence.
RECURSIVE InsertionOrder(_, _)
InsertionOrder(typed, seen) ==
  IF typed = <<>> THEN <<>>
  ELSE IF Head(typed).inc_type \in seen THEN InsertionOrder(Tail(typed), seen)
  ELSE <<Head(typed).inc_type>>
         \o InsertionOrder(Tail(typed), seen \cup {Head(typed).inc_type})

\* by_type.keys(): the types present, in the dictionary's iteration order.
\* keys_order = <<>> is a dictionary that iterates in insertion order; any
\* other value lists the types in the order the hash table yields them.
ByTypeKeys(typed) ==
  IF keys_order = <<>> THEN InsertionOrder(typed, {})
  ELSE SelectSeq(keys_order,
                 LAMBDA t : \E i \in 1..Len(typed) : typed[i].inc_type = t)

\* by_type[inc_type]
RECURSIVE ByType(_, _)
ByType(typed, inc_type) ==
  IF typed = <<>> THEN <<>>
  ELSE IF Head(typed).inc_type = inc_type
  THEN <<Head(typed).repr>> \o ByType(Tail(typed), inc_type)
  ELSE ByType(Tail(typed), inc_type)

\* "for inc_type in by_type.keys(): if inc_type in sections: extend"
RECURSIVE ExtendSection(_, _, _, _)
ExtendSection(typed, type_keys, sections, sorted_includes) ==
  IF type_keys = <<>> THEN sorted_includes
  ELSE ExtendSection(typed, Tail(type_keys), sections,
                     IF Head(type_keys) \in sections
                     THEN sorted_includes \o ByType(typed, Head(type_keys))
                     ELSE sorted_includes)

\* The separator without the test of the last element.
SeparateSection_unguarded(sorted_includes) ==
  IF sorted_includes # <<>>
  THEN Append(sorted_includes, <<>>)
  ELSE sorted_includes

\* "if sorted_includes and sorted_includes[-1]: sorted_includes.append(u'')"
SeparateSection(sorted_includes) ==
  IF sorted_includes # <<>> /\ sorted_includes[Len(sorted_includes)] # <<>>
  THEN Append(sorted_includes, <<>>)
  ELSE sorted_includes

\* The loop over _SECTIONS_ORDER, from section k on.
RECURSIVE EmitSections(_, _, _, _)
EmitSections(typed, type_keys, k, sorted_includes) ==
  IF k > Len(SECTIONS_ORDER) THEN sorted_includes
  ELSE EmitSections(typed, type_keys, k + 1,
         SeparateSection(ExtendSection(typed, type_keys, SECTIONS_ORDER[k],
                                       sorted_includes)))

\* The second loop of sort_includes_batch.
EmitTyped(typed) == EmitSections(typed, ByTypeKeys(typed), 1, <<>>)

sort_includes_batch(fname, incs) ==
  EmitTyped(TypedIncludes(fname, incs, Sorted(DOMAIN incs)))

(***************************************************************************)
(* Diagnostics: warn and err write one formatted message to sys.stderr.    *)
(* A message is kept as its format and its arguments.                      *)
(***************************************************************************)

FMT_CONSISTENT   == "included more than once (consistently)"
FMT_INCONSISTENT == "included more than once (inconsistently)"
FMT_PROJECT_FILE == "looks like a project-file, but is included with <>"
FMT_SYSTEM_FILE  == "looks like a system-file, but is included with quotes"
FMT_BATCHES      == "More than 1 batch of #include's"

\* warn(message, *args): the stream after the write.
warn(stream, message, args) ==
  Append(stream, [level |-> "WARNING", message |-> message, args |-> args])

\* err(message, *args): the stream after the write (err then raises).
err(stream, message, args) ==
  Append(stream, [level |-> "ERROR", message |-> message, args |-> args])

(***************************************************************************)
(* sort_includes: the body of the for-loop and the code after it, on the   *)
(* locals  [in_batch, includes, includes_batches, new_lines, stderr, exc]. *)
(* exc is "" while no exception is raised.                                 *)
(***************************************************************************)

NoIncludes == [k \in {} |-> NoMatch]

InitialLocals(stream) ==
  [in_batch |-> FALSE, includes |-> NoIncludes, includes_batches |-> 0,
   new_lines |-> <<>>, stderr |-> stream, exc |-> ""]

\* "if not in_batch: includes_batches += 1; in_batch = True"
StartBatch(loc) ==
  [loc EXCEPT !.includes_batches = IF loc.in_batch THEN @ ELSE @ + 1,
              !.in_batch = TRUE]

\* The same with an include of the wrong style left out of the batch.
AddToBatch_skip_wrong_style(loc, hkey, hfile, args) ==
  IF is_project_file(hfile.name) = hfile.is_system
  THEN [loc EXCEPT !.stderr = warn(@, IF hfile.is_system THEN FMT_PROJECT_FILE
                                      ELSE FMT_SYSTEM_FILE, args)]
  ELSE [loc EXCEPT
          !.includes = [k \in DOMAIN @ \cup {hkey} |->
                          IF k = hkey THEN hfile ELSE @[k]]]

\* "includes[hkey] = hfile" and the sanity check of the include style.
AddToBatch(loc, hkey, hfile, args) ==
  [loc EXCEPT
     !.includes = [k \in DOMAIN @ \cup {hkey} |-> IF k = hkey THEN hfile ELSE @[k]],
     !.stderr = IF is_project_file(hfile.name)
                THEN IF hfile.is_system
                     THEN warn(@, FMT_PROJECT_FILE, args) ELSE @
                ELSE IF ~hfile.is_system
                     THEN warn(@, FMT_SYSTEM_FILE, args) ELSE @]

\* The same with a comparison of the delimiter style and the trailer only.
ProcessInclude_style_and_trailer(loc, hkey, hfile, args) ==
  IF hkey \in DOMAIN loc.includes
  THEN IF /\ hfile.is_system = loc.includes[hkey].is_system
          /\ hfile.post_str = loc.includes[hkey].post_str
       THEN [loc EXCEPT !.stderr = warn(@, FMT_CONSISTENT, args)]
       ELSE [loc EXCEPT !.stderr = err(@, FMT_INCONSISTENT, args),
                        !.exc = "RuntimeError"]
  ELSE AddToBatch(loc, hkey, hfile, args)

\* "if hkey in includes: ... else: ..." for the parsed line.
ProcessInclude(loc, hkey, hfile, args) ==
  IF hkey \in DOMAIN loc.includes
  THEN IF HFile_repr(hfile) = HFile_repr(loc.includes[hkey])
       THEN [loc EXCEPT !.stderr = warn(@, FMT_CONSISTENT, args)]
       ELSE [loc EXCEPT !.stderr = err(@, FMT_INCONSISTENT, args),
                        !.exc = "RuntimeError"]
  ELSE AddToBatch(loc, hkey, hfile, args)

\* The same with the 0-based index of the line in the messages.
ProcessMatch_zero_based(fname, loc, lnum0, hfile) ==
  IF ~hfile.ok THEN [loc EXCEPT !.exc = "Exception"]
  ELSE ProcessInclude(loc, Lower(hfile.name), hfile,
                      <<hfile.name, fname, lnum0, HFile_repr(hfile)>>)

\* "hfile = HFile(line)" and what follows, given the match.
ProcessMatch(fname, loc, lnum0, hfile) ==
  IF ~hfile.ok THEN [loc EXCEPT !.exc = "Exception"]
  ELSE ProcessInclude(loc, Lower(hfile.name), hfile,
                      <<hfile.name, fname, lnum0 + 1, HFile_repr(hfile)>>)

\* The branch "if line.strip().startswith(u'#include')" for line lnum0 + 1.
IncludeBranch(fname, loc, lnum0, line) ==
  ProcessMatch(fname, StartBatch(loc), lnum0, HFile(line))

\* The else branch without its "continue": a blank line in a batch is copied.
OtherBranch_no_continue(fname, loc, line) ==
  IF loc.in_batch /\ ~IsBlankLine(line)
  THEN [loc EXCEPT
          !.in_batch = FALSE,
          !.new_lines = Append(@ \o sort_includes_batch(fname, loc.includes),
                               line),
          !.includes = NoIncludes]
  ELSE [loc EXCEPT !.new_lines = Append(@, line)]

\* The else branch of the loop body.
OtherBranch(fname, loc, line) ==
  IF loc.in_batch
  THEN IF ~IsBlankLine(line)
       THEN [loc EXCEPT
               !.in_batch = FALSE,
               !.new_lines = Append(@ \o sort_includes_batch(fname, loc.includes),
                                    line),
               !.includes = NoIncludes]
       ELSE loc
  ELSE [loc EXCEPT !.new_lines = Append(@, line)]

LoopBody(fname, loc, lnum0, line) ==
  IF IsIncludeLine(line) THEN IncludeBranch(fname, loc, lnum0, line)
  ELSE OtherBranch(fname, loc, line)

\* The code after the loop without the flush of a batch that ends the file.
FlushAtEnd_missing(fname, loc) == loc

\* "if in_batch: new_lines.extend(sort_includes_batch(filename, includes))"
FlushAtEnd(fname, loc) ==
  IF loc.in_batch
  THEN [loc EXCEPT !.new_lines = @ \o sort_includes_batch(fname, loc.includes)]
  ELSE loc

\* The same with the warning from the first batch on.
WarnBatches_from_one(fname, loc) ==
  IF loc.includes_batches >= 1
  THEN [loc EXCEPT !.stderr = warn(@, FMT_BATCHES, <<fname>>)]
  ELSE loc

\* "if includes_batches > 1: warn(...)"
WarnBatches(fname, loc) ==
  IF loc.includes_batches > 1
  THEN [loc EXCEPT !.stderr = warn(@, FMT_BATCHES, <<fname>>)]
  ELSE loc

\* The code after the loop.
AfterLoop(fname, loc) == WarnBatches(fname, FlushAtEnd(fname, loc))

\* The loop from line lnum0 + 1 on; it stops at the first exception.
RECURSIVE RunLoop(_, _, _, _)
RunLoop(fname, some_lines, loc, lnum0) ==
  IF loc.exc # "" THEN loc
  ELSE IF lnum0 >= Len(some_lines) THEN AfterLoop(fname, loc)
  ELSE RunLoop(fname, some_lines,
               LoopBody(fname, loc, lnum0, some_lines[lnum0 + 1]), lnum0 + 1)

\* sort_includes(filename, lines) as one call: the final locals.  The
\* function returns new_lines when exc = "" and raises exc otherwise.
sort_includes(fname, some_lines) ==
  RunLoop(fname, some_lines, InitialLocals(<<>>), 0)

(***************************************************************************)
(* correct_spacing: a chain of re.sub calls on one line.  A position p in  *)
(* 0..Len(s) is the gap after the first p characters of s.                 *)
(***************************************************************************)

\* The characters the regular expression class \w matches.
IsWord(c) ==
  c \in {"A", "B", "_", "a", "b", "c", "d", "e", "f", "h", "i", "l", "n",
         "o", "p", "r", "s", "t", "u", "w", "x"}

\* The character before position p ("" at the start of the line).
CharBefore(s, p) == IF p >= 1 /\ p <= Len(s) THEN s[p] ELSE ""

\* The character after position p ("" at the end of the line).
CharAfter(s, p) == IF p >= 0 /\ p < Len(s) THEN s[p + 1] ELSE ""

\* re.sub of a pattern that consumes nothing: repl goes into every position
\* the pattern matches; matches[p] tells whether it matches at position p.
RECURSIVE InsertAtMatches(_, _, _, _)
InsertAtMatches(s, matches, repl, p) ==
  (IF matches[p] THEN repl ELSE <<>>)
    \o (IF p = Len(s) THEN <<>>
        ELSE <<s[p + 1]>> \o InsertAtMatches(s, matches, repl, p + 1))

\* tabs = r'\t', replaced by two spaces.
RECURSIVE tabs(_)
tabs(s) ==
  IF s = <<>> THEN <<>>
  ELSE (IF Head(s) = "\t" THEN <<" ", " ">> ELSE <<Head(s)>>) \o tabs(Tail(s))

\* endline_whitespace = r'(\s*$)', replaced by the empty string.
endline_whitespace(s) == Upto(s, SkipSpaceBack(s, Len(s)))

\* semicolon0 = r'(?<=[;,])(?!($|\s))', replaced by one space.
semicolon0_at(s, p) ==
  /\ CharBefore(s, p) \in {";", ","}
  /\ p < Len(s)
  /\ ~IsSpace(s[p + 1])

semicolon0(s) ==
  InsertAtMatches(s, [p \in 0..Len(s) |-> semicolon0_at(s, p)], <<" ">>, 0)

\* semicolon1 = r'(\s*)(?=[;,])', replaced by the empty string: the scan
\* from position p on.  The greedy \s* takes the whole run of whitespace
\* after p; the match is dropped and the scan resumes after the [;,].
\* The same scan for r'(\s*)[;,]', whose match takes the [;,] as well.
RECURSIVE semicolon1_from_no_lookahead(_, _)
semicolon1_from_no_lookahead(s, p) ==
  IF p >= Len(s) THEN <<>>
  ELSE IF CharAfter(s, SkipSpace(s, p + 1) - 1) \in {";", ","}
       THEN semicolon1_from_no_lookahead(s, SkipSpace(s, p + 1))
       ELSE <<s[p + 1]>> \o semicolon1_from_no_lookahead(s, p + 1)

RECURSIVE semicolon1_from(_, _)
semicolon1_from(s, p) ==
  IF p >= Len(s) THEN <<>>
  ELSE IF CharAfter(s, SkipSpace(s, p + 1) - 1) \in {";", ","}
       THEN <<s[SkipSpace(s, p + 1)]>> \o semicolon1_from(s, SkipSpace(s, p + 1))
       ELSE <<s[p + 1]>> \o semicolon1_from(s, p + 1)

semicolon1(s) == semicolon1_from(s, 0)

\* curly_braces = r'(?<=[}])(?=\w)|(?<=[)\w])(?=[{])', replaced by one space.
curly_braces_at(s, p) ==
  \/ CharBefore(s, p) = "}" /\ IsWord(CharAfter(s, p))
  \/ /\ CharBefore(s, p) = ")" \/ IsWord(CharBefore(s, p))
     /\ CharAfter(s, p) = "{"

curly_braces(s) ==
  InsertAtMatches(s, [p \in 0..Len(s) |-> curly_braces_at(s, p)], <<" ">>, 0)

\* The classes [\w\"\'] and [=<>].
IsWordOrQuote(c) == IsWord(c) \/ c \in {"\"", "'"}

IsAssignGtLt(c) == c \in {"=", "<", ">"}

\* assignment_gt_lt = r'(?<=[\w\"\'])(?=[=<>])|(?<=[=<>])(?=[\w\"\'])',
\* replaced by one space.
assignment_gt_lt_at(s, p) ==
  \/ IsWordOrQuote(CharBefore(s, p)) /\ IsAssignGtLt(CharAfter(s, p))
  \/ IsAssignGtLt(CharBefore(s, p)) /\ IsWordOrQuote(CharAfter(s, p))

assignment_gt_lt(s) ==
  InsertAtMatches(s, [p \in 0..Len(s) |-> assignment_gt_lt_at(s, p)],
                  <<" ">>, 0)

\* The alternatives of (==|!=|<=|>=|&&|>>|<<|\|\|).
OPERS ==
  { <<"=", "=">>, <<"!", "=">>, <<"<", "=">>, <<">", "=">>, <<"&", "&">>,
    <<">", ">">>, <<"<", "<">>, <<"|", "|">> }

\* One of the alternatives occupies the characters i and i + 1 of s.
OperAt(s, i) == i >= 1 /\ i + 1 <= Len(s) /\ <<s[i], s[i + 1]>> \in OPERS

\* oper_wo_space_in = r'(?<!\s)(?=(==|!=|<=|>=|&&|>>|<<|\|\|))', replaced by
\* one space.
oper_wo_space_in_at(s, p) == ~IsSpace(CharBefore(s, p)) /\ OperAt(s, p + 1)

oper_wo_space_in(s) ==
  InsertAtMatches(s, [p \in 0..Len(s) |-> oper_wo_space_in_at(s, p)],
                  <<" ">>, 0)

\* oper_wo_space_out = r'(?<=(==|!=|<=|>=|&&|>>|<<|\|\|))(?!$|\s)', replaced
\* by one space.
oper_wo_space_out_at(s, p) ==
  /\ OperAt(s, p - 1)
  /\ p < Len(s)
  /\ ~IsSpace(s[p + 1])

oper_wo_space_out(s) ==
  InsertAtMatches(s, [p \in 0..Len(s) |-> oper_wo_space_out_at(s, p)],
                  <<" ">>, 0)

\* The alternatives of (if|for|while|switch).
LOOPS_AND_CONDS ==
  { <<"i", "f">>, <<"f", "o", "r">>, <<"w", "h", "i", "l", "e">>,
    <<"s", "w", "i", "t", "c", "h">> }

\* loops_and_conds = r'(^|\W)(if|for|while|switch)(?=[(])', replaced by
\* r'\1\2 ': the keyword kw ends at position p, after the start of the
\* line or a character that is not \w, and a round bracket follows.
loops_and_conds_at(s, p, kw) ==
  /\ p >= Len(kw)
  /\ StartsWithAt(s, kw, p - Len(kw) + 1)
  /\ p = Len(kw) \/ ~IsWord(s[p - Len(kw)])
  /\ CharAfter(s, p) = "("

loops_and_conds(s) ==
  InsertAtMatches(s, [p \in 0..Len(s) |->
                        \E kw \in LOOPS_AND_CONDS : loops_and_conds_at(s, p, kw)],
                  <<" ">>, 0)

\* [/]{2} ends at position p.
SlashesBefore(s, p) == p >= 2 /\ p <= Len(s) /\ s[p - 1] = "/" /\ s[p] = "/"

\* [/]{2} begins at position p.
SlashesAfter(s, p) == p >= 0 /\ p + 2 <= Len(s) /\ s[p + 1] = "/" /\ s[p + 2] = "/"

\* comments0 = r'(?<=[/]{2})(?=[\S])', replaced by one space.
comments0_at(s, p) ==
  /\ SlashesBefore(s, p)
  /\ p < Len(s)
  /\ ~IsSpace(s[p + 1])

comments0(s) ==
  InsertAtMatches(s, [p \in 0..Len(s) |-> comments0_at(s, p)], <<" ">>, 0)

\* comments1 = r'(?<![ ])( ?)(?=[/]{2})', replaced by two spaces: what goes
\* into position p.  Where the group takes the space after p, the two
\* spaces stand for it, which adds one; where the group is empty, both are
\* added.
comments1_at(s, p) ==
  IF CharBefore(s, p) = " " THEN <<>>
  ELSE IF CharAfter(s, p) = " " /\ SlashesAfter(s, p + 1) THEN <<" ">>
  ELSE IF SlashesAfter(s, p) THEN <<" ", " ">>
  ELSE <<>>

RECURSIVE comments1_from(_, _)
comments1_from(s, p) ==
  comments1_at(s, p)
    \o (IF p = Len(s) THEN <<>> ELSE <<s[p + 1]>> \o comments1_from(s, p + 1))

comments1(s) == comments1_from(s, 0)

\* comments2 = r'(?<=[/]{2})(\s*)', replaced by one space: the scan from
\* position p on.  The greedy \s* takes the whole run of whitespace after
\* the slashes, and the empty run where there is none.
RECURSIVE comments2_from(_, _)
comments2_from(s, p) ==
  IF SlashesBefore(s, p)
  THEN <<" ">>
         \o (IF SkipSpace(s, p + 1) > Len(s) THEN <<>>
             ELSE <<s[SkipSpace(s, p + 1)]>>
                    \o comments2_from(s, SkipSpace(s, p + 1)))
  ELSE IF p = Len(s) THEN <<>>
  ELSE <<s[p + 1]>> \o comments2_from(s, p + 1)

comments2(s) == comments2_from(s, 0)

\* correct_spacing(a_line)
correct_spacing(line) ==
  comments2(comments1(comments0(loops_and_conds(oper_wo_space_out(
    oper_wo_space_in(assignment_gt_lt(curly_braces(semicolon1(semicolon0(
      endline_whitespace(tabs(line))))))))))))

(***************************************************************************)
(* Inputs.                                                                 *)
(***************************************************************************)

\* The longest file, in lines.
MaxLines == 3

\* All sequences over S of length at most n.
SeqsUpTo(S, n) == UNION {[1..k -> S] : k \in 0..n}

\* Directive lines.
LINE_a        == HASH_INCLUDE \o <<" ", "<", "a", ">">>
LINE_A        == HASH_INCLUDE \o <<" ", "<", "A", ">">>
LINE_a_spaced == <<"\t">> \o HASH_INCLUDE \o <<"<", " ", "a", "\t", ">">>
LINE_a_post   == HASH_INCLUDE \o <<" ", "<", "a", "\"", " ", "/", "/">>
LINE_a_quoted == HASH_INCLUDE \o <<" ", "\"", "a", "\"">>
LINE_a_h      == HASH_INCLUDE \o <<" ", "\"", "a", ".", "h", "\"">>
LINE_B_h      == HASH_INCLUDE \o <<" ", "\"", "B", ".", "h", "\"">>
\* A line that starts like a directive and does not match the pattern.
LINE_bad      == HASH_INCLUDE \o <<" ", "a">>
\* Other lines.
LINE_code     == <<"x">>
LINE_hash     == <<"#", " ">> \o INCLUDE \o <<" ", "<", "a", ">">>
LINE_empty    == <<>>
LINE_space    == <<" ">>

\* The lines of the files that vary the text of and around the directives.
Lines == {LINE_a, LINE_A, LINE_a_spaced, LINE_a_post, LINE_a_quoted, LINE_B_h,
          LINE_bad, LINE_code, LINE_empty, LINE_space}

\* The lines of the files that vary the classifier.
ClassifyLines == {LINE_a_quoted, LINE_a_h, LINE_hash}

\* The lines of the files that vary the file name and the root.
LINE_A_h     == HASH_INCLUDE \o <<" ", "\"", "A", ".", "h", "\"">>
LINE_dot_a_h == HASH_INCLUDE \o <<" ", "\"", ".", "/", "a", ".", "h", "\"">>
LINE_p_a_h   == HASH_INCLUDE \o <<" ", "\"", "p", "/", "a", ".", "h", "\"">>

OwnHeaderLines == {LINE_a_h, LINE_A_h, LINE_dot_a_h, LINE_p_a_h, LINE_a}

FILE_A_c      == <<"A", ".", "c">>
FILE_a_test_c == <<"a", "_", "t", "e", "s", "t", ".", "c">>
FILE_p_a_c    == <<"p", "/", "a", ".", "c">>
ROOT_p        == <<"p">>

\* What the classifier answers about a header it takes for the file's own.
OwnHeaderTypes == {LIKELY_MY_HEADER, POSSIBLE_MY_HEADER}

FILE_a_c == <<"a", ".", "c">>

\* What cpplint's classifier answers for a.c: an angled include is a C++
\* system header when it is in the list of C++ headers (here: a) and a C
\* system header otherwise; a quoted include with the stem of the file is
\* likely its own header, any other quoted include is an other header.
CpplintLike(pair) ==
  IF pair[2] THEN (IF pair[1] = <<"a">> THEN CPP_SYS_HEADER ELSE C_SYS_HEADER)
  ELSE IF SplitExtRoot(pair[1]) = <<"a">> THEN LIKELY_MY_HEADER
  ELSE OTHER_HEADER

\* The (target, is_system) pairs the classifier is asked about for a file.
ClassifiedPairs(some_lines) ==
  {<<HFile(some_lines[i]).name, HFile(some_lines[i]).is_system>> :
     i \in {j \in 1..Len(some_lines) :
              IsIncludeLine(some_lines[j]) /\ HFile(some_lines[j]).ok}}

\* The iteration orders of by_type.keys() (see ByTypeKeys).
KeysOrders ==
  { <<>>,
    <<LIKELY_MY_HEADER, POSSIBLE_MY_HEADER, C_SYS_HEADER, CPP_SYS_HEADER,
      LIBS_HEADER, OTHER_HEADER>>,
    <<POSSIBLE_MY_HEADER, LIKELY_MY_HEADER, C_SYS_HEADER, CPP_SYS_HEADER,
      LIBS_HEADER, OTHER_HEADER>> }

\* What is on disk below the current directory (and below ROOT): the
\* directory a and the file a.h.
DISK ==
  [files |-> {<<"a", ".", "h">>, <<"p", "/", "a", ".", "h">>},
   dirs  |-> {<<"a">>, <<"p", "/", "a">>}]

\* Other file systems: nothing on disk, the file only, the directory only.
Disks ==
  { DISK,
    [files |-> {}, dirs |-> {}],
    [files |-> DISK.files, dirs |-> {}],
    [files |-> {}, dirs |-> DISK.dirs] }

\* The lines of the files that vary what is on disk.
StyleLines == {LINE_a, LINE_A, LINE_a_h, LINE_B_h, LINE_code}

(***************************************************************************)
(* The state machine: one sort_includes call, one loop iteration a step.   *)
(***************************************************************************)

Locals ==
  [in_batch |-> in_batch, includes |-> includes,
   includes_batches |-> includes_batches, new_lines |-> new_lines,
   stderr |-> stderr, exc |-> exc]

SetLocals(loc) ==
  /\ in_batch' = loc.in_batch
  /\ includes' = loc.includes
  /\ includes_batches' = loc.includes_batches
  /\ new_lines' = loc.new_lines
  /\ stderr' = loc.stderr
  /\ exc' = loc.exc

\* The locals at the start of sort_includes.
InitLocalsState ==
  /\ lnum = 0
  /\ in_batch = FALSE
  /\ includes = NoIncludes
  /\ includes_batches = 0
  /\ new_lines = <<>>
  /\ stderr = <<>>
  /\ exc = ""
  /\ pc = "loop"

\* Files that vary the text around and inside the directives, under a
\* classifier that answers as cpplint does for a.c when <a> is a C++ header.
InitSyntax ==
  /\ filename = FILE_a_c
  /\ ROOT = <<>>
  /\ keys_order = <<>>
  /\ lines \in SeqsUpTo(Lines, MaxLines)
  /\ classifier = [p \in ClassifiedPairs(lines) |-> CpplintLike(p)]

\* Shorter files, with or without a final empty line, that vary what the
\* classifier answers, for every iteration order of by_type.keys().
InitClassify ==
  /\ filename = FILE_a_c
  /\ ROOT = <<>>
  /\ keys_order \in KeysOrders
  /\ lines \in {body \o last : body \in SeqsUpTo(ClassifyLines, MaxLines - 1),
                              last \in {<<>>, <<LINE_empty>>}}
  /\ classifier \in [ClassifiedPairs(lines) -> IncludeTypes]

\* Shorter files that vary the file name and the root, under a classifier
\* that takes every quoted header for the file's own (likely or possible).
InitOwnHeader ==
  /\ filename \in {FILE_a_c, FILE_A_c, FILE_a_test_c, FILE_p_a_c}
  /\ ROOT \in {<<>>, ROOT_p}
  /\ keys_order = <<>>
  /\ lines \in SeqsUpTo(OwnHeaderLines, MaxLines - 1)
  /\ classifier \in {c \in [ClassifiedPairs(lines) -> OwnHeaderTypes \cup {CPP_SYS_HEADER}] :
                       \A q \in DOMAIN c : q[2] <=> (c[q] = CPP_SYS_HEADER)}

\* Shorter files that vary what is on disk, with and without a root.
InitStyle ==
  /\ filename = FILE_a_c
  /\ ROOT \in {<<>>, ROOT_p}
  /\ keys_order = <<>>
  /\ lines \in SeqsUpTo(StyleLines, MaxLines - 1)
  /\ classifier = [p \in ClassifiedPairs(lines) |-> CpplintLike(p)]
  /\ disk \in Disks

\* correct_spacing is not running.
NoSpacing == a_line = <<>> /\ result = <<>>

\* stylify is not running.
NoStylify ==
  /\ modules = <<>>
  /\ no_edit = FALSE
  /\ files = <<>>
  /\ contents = <<>>
  /\ stdin = <<>>
  /\ stdout = <<>>
  /\ files_done = 0

Init ==
  /\ InitLocalsState
  /\ NoSpacing
  /\ NoStylify
  /\ \/ disk = DISK /\ (InitSyntax \/ InitClassify \/ InitOwnHeader)
     \/ InitStyle

Looping == pc = "loop" /\ lnum < Len(lines)

CurrentLine == lines[lnum + 1]

\* One iteration of the loop on CurrentLine.
Iterate ==
  \E loc \in {LoopBody(filename, Locals, lnum, CurrentLine)} :
    /\ SetLocals(loc)
    /\ lnum' = IF loc.exc = "" THEN lnum + 1 ELSE lnum
    /\ pc' = IF loc.exc = "" THEN "loop" ELSE "raised"
    /\ UNCHANGED inputs

\* A directive line whose key is not in the batch.
AddInclude ==
  /\ Looping
  /\ IsIncludeLine(CurrentLine)
  /\ HFile(CurrentLine).ok
  /\ Lower(HFile(CurrentLine).name) \notin DOMAIN includes
  /\ Iterate

\* A directive line that repeats a key of the batch with the same repr.
RepeatConsistent ==
  /\ Looping
  /\ IsIncludeLine(CurrentLine)
  /\ HFile(CurrentLine).ok
  /\ Lower(HFile(CurrentLine).name) \in DOMAIN includes
  /\ HFile_repr(HFile(CurrentLine))
       = HFile_repr(includes[Lower(HFile(CurrentLine).name)])
  /\ Iterate

\* A directive line that repeats a key of the batch with another repr.
RepeatInconsistent ==
  /\ Looping
  /\ IsIncludeLine(CurrentLine)
  /\ HFile(CurrentLine).ok
  /\ Lower(HFile(CurrentLine).name) \in DOMAIN includes
  /\ HFile_repr(HFile(CurrentLine))
       # HFile_repr(includes[Lower(HFile(CurrentLine).name)])
  /\ Iterate

\* A directive line the pattern does not match: HFile raises.
NotAnInclude ==
  /\ Looping
  /\ IsIncludeLine(CurrentLine)
  /\ ~HFile(CurrentLine).ok
  /\ Iterate

\* A non-blank line that is no directive, in a batch: the batch ends.
EndBatch ==
  /\ Looping
  /\ ~IsIncludeLine(CurrentLine)
  /\ in_batch
  /\ ~IsBlankLine(CurrentLine)
  /\ Iterate

\* A blank line in a batch: continue.
SkipBlank ==
  /\ Looping
  /\ ~IsIncludeLine(CurrentLine)
  /\ in_batch
  /\ IsBlankLine(CurrentLine)
  /\ Iterate

\* A line that is no directive, outside a batch.
CopyLine ==
  /\ Looping
  /\ ~IsIncludeLine(CurrentLine)
  /\ ~in_batch
  /\ Iterate

\* The code after the loop, and the return.
Return ==
  /\ pc = "loop"
  /\ lnum = Len(lines)
  /\ SetLocals(AfterLoop(filename, Locals))
  /\ pc' = "returned"
  /\ UNCHANGED <<inputs, lnum>>

Next ==
  \/ AddInclude
  \/ RepeatConsistent
  \/ RepeatInconsistent
  \/ NotAnInclude
  \/ EndBatch
  \/ SkipBlank
  \/ CopyLine
  \/ Return

Spec == Init /\ [][Next]_vars

(***************************************************************************)
(* Properties.                                                             *)
(***************************************************************************)

Returned == pc = "returned"

\* The lower-cased target of a directive line.
KeyOf(line) == Lower(HFile(line).name)

\* The type the sorter files a directive line of the output under.
TypeOfLine(line) == BatchType(filename, KeyOf(line), HFile(line))

\* The lines i..j of the output lie in one emitted block: directives and
\* empty lines only (the line that ends a batch is neither).
SameBlock(out, i, j) ==
  \A k \in i..j : IsIncludeLine(out[k]) \/ out[k] = <<>>

\* C1: sort_includes is idempotent: when sort_includes(filename, lines)
\* returns, sort_includes on the returned lines returns too, and returns
\* the same lines (same classifier, same project-membership predicate).
C1_Idempotent ==
  Returned =>
    /\ sort_includes(filename, new_lines).exc = ""
    /\ sort_includes(filename, new_lines).new_lines = new_lines

\* A call that returned, reordered its input and emitted two sections.
C1_Witness ==
  /\ Returned
  /\ new_lines # lines
  /\ \E i, j \in 1..Len(new_lines) :
       /\ i < j
       /\ IsIncludeLine(new_lines[i])
       /\ IsIncludeLine(new_lines[j])
       /\ TypeOfLine(new_lines[i]) # TypeOfLine(new_lines[j])

\* The position in the fixed section order the claims state: own header,
\* C system, C++ system, external library, project-other.
ClaimedSection(inc_type) ==
  CASE inc_type \in {LIKELY_MY_HEADER, POSSIBLE_MY_HEADER} -> 1
    [] inc_type = C_SYS_HEADER -> 2
    [] inc_type = CPP_SYS_HEADER -> 3
    [] inc_type = LIBS_HEADER -> 4
    [] inc_type = OTHER_HEADER -> 5

SectionOfLine(line) == ClaimedSection(TypeOfLine(line))

\* C3: in every emitted block the directives are grouped by section in the
\* order own header, C system, C++ system, external library, project-other:
\* no directive of a later section precedes one of an earlier section.
C3_SectionOrder ==
  Returned =>
    \A i, j \in 1..Len(new_lines) :
      ( /\ i < j
        /\ IsIncludeLine(new_lines[i])
        /\ IsIncludeLine(new_lines[j])
        /\ SameBlock(new_lines, i, j) )
      => SectionOfLine(new_lines[i]) <= SectionOfLine(new_lines[j])

\* A returned block whose two directives came in the other order and lie
\* in different sections.
C3_Witness ==
  /\ Returned
  /\ Len(lines) >= 2
  /\ IsIncludeLine(lines[1])
  /\ IsIncludeLine(lines[2])
  /\ SectionOfLine(lines[1]) > SectionOfLine(lines[2])
  /\ Len(new_lines) >= 3
  /\ KeyOf(new_lines[1]) = KeyOf(lines[2])

\* C4: within every section of an emitted block, the own-header section
\* with its likely and possible own headers included, the directives are in
\* ascending order of their lower-cased target.
C4_SortedInSection ==
  Returned =>
    \A i, j \in 1..Len(new_lines) :
      ( /\ i < j
        /\ IsIncludeLine(new_lines[i])
        /\ IsIncludeLine(new_lines[j])
        /\ SameBlock(new_lines, i, j)
        /\ SectionOfLine(new_lines[i]) = SectionOfLine(new_lines[j]) )
      => StrLess(KeyOf(new_lines[i]), KeyOf(new_lines[j]))

\* What follows a directive of a canonical file: a directive of the same
\* section with a greater key, or one empty line and then the end of the
\* file, a directive of a later section or a line that ends the batch.
CanonicalAfter(ls, i) ==
  /\ i < Len(ls)
  /\ IF IsIncludeLine(ls[i + 1])
     THEN /\ SectionOfLine(ls[i + 1]) = SectionOfLine(ls[i])
          /\ StrLess(KeyOf(ls[i]), KeyOf(ls[i + 1]))
     ELSE /\ ls[i + 1] = <<>>
          /\ \/ i + 1 = Len(ls)
             \/ /\ IsIncludeLine(ls[i + 2])
                /\ SectionOfLine(ls[i + 2]) > SectionOfLine(ls[i])
             \/ /\ ~IsIncludeLine(ls[i + 2])
                /\ ~IsBlankLine(ls[i + 2])

\* A file whose include blocks are canonical: every directive is well formed
\* and written in its rendered form, no key comes twice in a batch, and the
\* blocks are in section order, sorted by key inside each section, with one
\* empty line after each section.
Canonical(ls) ==
  /\ \A i \in 1..Len(ls) : IsIncludeLine(ls[i]) => HFile(ls[i]).ok
  /\ \A i \in 1..Len(ls) :
       IsIncludeLine(ls[i]) =>
         /\ ls[i] = HFile_repr(HFile(ls[i]))
         /\ CanonicalAfter(ls, i)
  /\ \A i, j \in 1..Len(ls) :
       ( /\ i < j
         /\ IsIncludeLine(ls[i])
         /\ IsIncludeLine(ls[j])
         /\ \A k \in i..j : IsIncludeLine(ls[k]) \/ IsBlankLine(ls[k]) )
       => KeyOf(ls[i]) # KeyOf(ls[j])

\* C2: sort_includes is a no-op on canonical input: when the include blocks
\* of the input are in section order, sorted by lower-cased target inside
\* each section, with a single blank line after each section, and hold no
\* duplicate or malformed directive, sort_includes returns the input,
\* element for element.
C2_NoOpOnCanonical ==
  (pc \in {"returned", "raised"} /\ Canonical(lines)) =>
    (Returned /\ new_lines = lines)

\* A canonical file of two directives that sort_includes returns unchanged.
C2_CanonicalReturned ==
  /\ Returned
  /\ Canonical(lines)
  /\ new_lines = lines
  /\ Len(lines) = 3
  /\ IsIncludeLine(lines[2])

\* The shape of an emitted block: it starts with a directive; a directive is
\* followed by a directive of its section or by an empty line; an empty line
\* follows a directive and ends the block or precedes a directive of
\* another section.
BlockShape(block) ==
  \A i \in 1..Len(block) :
    IF IsIncludeLine(block[i])
    THEN /\ i < Len(block)
         /\ IF IsIncludeLine(block[i + 1])
            THEN SectionOfLine(block[i + 1]) = SectionOfLine(block[i])
            ELSE block[i + 1] = <<>>
    ELSE /\ block[i] = <<>>
         /\ i > 1
         /\ IsIncludeLine(block[i - 1])
         /\ i < Len(block) =>
              /\ IsIncludeLine(block[i + 1])
              /\ SectionOfLine(block[i + 1]) # SectionOfLine(block[i - 1])

\* In the output a directive is followed by a directive or by exactly one
\* empty line, which ends the file or precedes a non-blank line.
OneBlankAfter(out) ==
  \A i \in 1..Len(out) :
    IsIncludeLine(out[i]) =>
      /\ i < Len(out)
      /\ \/ IsIncludeLine(out[i + 1])
         \/ /\ out[i + 1] = <<>>
            /\ i + 1 < Len(out) => ~IsBlankLine(out[i + 2])

\* C5: blank lines inside or right after a batch are never copied from the
\* input; in every emitted block each non-empty section is followed by
\* exactly one blank line (between two sections and after the last one,
\* whatever blank lines the input had there), and there is no blank line
\* before the first directive or inside a section.
C5_BlankLinesRegenerated ==
  /\ (pc = "loop" /\ in_batch) =>
       BlockShape(sort_includes_batch(filename, includes))
  /\ Returned => OneBlankAfter(new_lines)

\* A returned call whose input had a blank line inside a batch of two
\* sections and none after the last directive.
C5_Witness ==
  /\ Returned
  /\ Len(lines) = 3
  /\ IsIncludeLine(lines[1])
  /\ IsBlankLine(lines[2])
  /\ IsIncludeLine(lines[3])
  /\ SectionOfLine(lines[1]) # SectionOfLine(lines[3])
  /\ Len(new_lines) = 4

\* The file with each batch folded into one item that holds the keys of its
\* directives, the other lines kept as they are: the lines up to i folded
\* into acc, the keys of the open batch in keys.
RECURSIVE Fold(_, _, _, _, _)
Fold(ls, i, open, keys, acc) ==
  IF i > Len(ls)
  THEN IF open THEN Append(acc, [batch |-> TRUE, keys |-> keys, text |-> <<>>])
       ELSE acc
  ELSE IF IsIncludeLine(ls[i])
  THEN Fold(ls, i + 1, TRUE, keys \cup {KeyOf(ls[i])}, acc)
  ELSE IF open /\ IsBlankLine(ls[i])
  THEN Fold(ls, i + 1, TRUE, keys, acc)
  ELSE Fold(ls, i + 1, FALSE, {},
            IF open
            THEN acc \o << [batch |-> TRUE, keys |-> keys, text |-> <<>>],
                           [batch |-> FALSE, keys |-> {}, text |-> ls[i]] >>
            ELSE Append(acc, [batch |-> FALSE, keys |-> {}, text |-> ls[i]]))

Skeleton(ls) == Fold(ls, 1, FALSE, {}, <<>>)

\* C6: sort_includes does not touch the surrounding lines: every line that
\* is no directive and no blank line of a batch is in the output unchanged,
\* once and in the same order; each batch is replaced in place by its own
\* block, and the line that ends a batch comes right after that block.
C6_SurroundingLines ==
  Returned => Skeleton(new_lines) = Skeleton(lines)

\* A returned call with a line before a batch, a batch and the line that
\* ends it.
C6_Witness ==
  /\ Returned
  /\ Len(lines) = 3
  /\ ~IsIncludeLine(lines[1])
  /\ IsIncludeLine(lines[2])
  /\ ~IsIncludeLine(lines[3])
  /\ ~IsBlankLine(lines[3])
  /\ Len(new_lines) = 4
  /\ new_lines[4] = lines[3]

\* Lines i..j of the input lie in one batch: directives and blank lines only.
SameBatch(ls, i, j) ==
  \A k \in i..j : IsIncludeLine(ls[k]) \/ IsBlankLine(ls[k])

\* Line j is a directive of the batch of line i, before it, with its key.
Earlier(ls, i, j) ==
  /\ j < i
  /\ IsIncludeLine(ls[j])
  /\ SameBatch(ls, j, i)
  /\ KeyOf(ls[j]) = KeyOf(ls[i])

\* Line i is a well-formed directive whose key is already in its batch.
Repeats(ls, i) ==
  /\ IsIncludeLine(ls[i])
  /\ HFile(ls[i]).ok
  /\ \E j \in 1..Len(ls) : Earlier(ls, i, j)

\* The line of the stored record for the key of line i: the first one.
StoredLine(ls, i) ==
  CHOOSE j \in 1..Len(ls) :
    /\ Earlier(ls, i, j)
    /\ \A k \in 1..(j - 1) : ~Earlier(ls, i, k)

ConsistentRepeat(ls, i) ==
  /\ Repeats(ls, i)
  /\ HFile_repr(HFile(ls[i])) = HFile_repr(HFile(ls[StoredLine(ls, i)]))

\* The arguments of the message about line i: the target, the file, the
\* 1-based line number and the rendered form.
CitesLine(i) ==
  <<HFile(lines[i]).name, filename, i, HFile_repr(HFile(lines[i]))>>

ConsistentWarning(i) ==
  [level |-> "WARNING", message |-> FMT_CONSISTENT, args |-> CitesLine(i)]

\* C7: a directive line whose lower-cased target is already in the current
\* batch and whose rendered form equals the stored record's does not stop
\* the run: the first record is kept, exactly one warning is written for
\* the repeated line, citing the file and the 1-based line number, and the
\* emitted block holds no two directives with the same lower-cased target.
C7_ConsistentDuplicate ==
  /\ pc = "raised" => ~ConsistentRepeat(lines, lnum + 1)
  /\ LET repeats == {i \in 1..lnum : ConsistentRepeat(lines, i)}
         warnings == {k \in 1..Len(stderr) : stderr[k].message = FMT_CONSISTENT}
     IN /\ {stderr[k] : k \in warnings} = {ConsistentWarning(i) : i \in repeats}
        /\ Cardinality(warnings) = Cardinality(repeats)
        /\ \A i \in repeats :
             (in_batch /\ SameBatch(lines, i, lnum)) =>
               includes[KeyOf(lines[i])] = HFile(lines[StoredLine(lines, i)])
  /\ Returned =>
       \A i, j \in 1..Len(new_lines) :
         ( /\ i < j
           /\ IsIncludeLine(new_lines[i])
           /\ IsIncludeLine(new_lines[j])
           /\ SameBlock(new_lines, i, j) )
         => KeyOf(new_lines[i]) # KeyOf(new_lines[j])

\* A returned call whose third line repeated the first one consistently.
C7_Witness ==
  /\ Returned
  /\ Len(lines) = 3
  /\ ConsistentRepeat(lines, 3)
  /\ StoredLine(lines, 3) = 1
  /\ Len(new_lines) = 2 * Len(stderr)

\* The delimiter style or the trailer of line i differs from those of the
\* stored record.
StyleOrTrailerDiffers(ls, i) ==
  \/ HFile(ls[i]).is_system # HFile(ls[StoredLine(ls, i)]).is_system
  \/ HFile(ls[i]).post_str # HFile(ls[StoredLine(ls, i)]).post_str

InconsistentError(i) ==
  [level |-> "ERROR", message |-> FMT_INCONSISTENT, args |-> CitesLine(i)]

\* What a fatal failure on a repeated line leaves behind: one ERROR
\* message, the last one written, that cites the file, the 1-based line
\* number of the later occurrence and its rendered form; nothing returned.
FatalReport ==
  /\ Repeats(lines, lnum + 1)
  /\ stderr # <<>>
  /\ stderr[Len(stderr)] = InconsistentError(lnum + 1)
  /\ Cardinality({k \in 1..Len(stderr) : stderr[k].level = "ERROR"}) = 1

\* C8 as stated: a directive line whose lower-cased target is already in
\* the current batch makes sort_includes fail fatally if and only if its
\* delimiter style or its trailer differs from the stored record's; the
\* failure writes exactly one ERROR message citing the file, the 1-based
\* line number of the later occurrence and its rendered form, and no line
\* sequence is returned.
C8_StyleOrTrailer ==
  /\ (pc = "raised" /\ exc = "RuntimeError") =>
       (FatalReport /\ StyleOrTrailerDiffers(lines, lnum + 1))
  /\ \A i \in 1..lnum : Repeats(lines, i) => ~StyleOrTrailerDiffers(lines, i)
  /\ Returned => exc = ""

\* C8, amended: a directive line whose lower-cased target is already in the
\* current batch makes sort_includes fail fatally if and only if its
\* rendered form differs from the stored record's (the delimiter style, the
\* trailer or the spelling of the target, letter case included); the
\* failure writes exactly one ERROR message citing the file, the 1-based
\* line number of the later occurrence and its rendered form, and no line
\* sequence is returned.
C8_RenderedFormDiffers ==
  /\ (pc = "raised" /\ exc = "RuntimeError") =>
       (FatalReport /\ ~ConsistentRepeat(lines, lnum + 1))
  /\ \A i \in 1..lnum : Repeats(lines, i) => ConsistentRepeat(lines, i)
  /\ pc # "raised" => \A k \in 1..Len(stderr) : stderr[k].level # "ERROR"
  /\ Returned => exc = ""
  /\ exc # "" <=> pc = "raised"

\* A fatal failure on a line that repeats a key with the same delimiter
\* style and the same trailer, in another letter case.
C8_Witness ==
  /\ pc = "raised"
  /\ exc = "RuntimeError"
  /\ FatalReport
  /\ ~StyleOrTrailerDiffers(lines, lnum + 1)
  /\ lnum + 1 = Len(lines)

\* The delimiters of a directive line, read off the line: the first < or ",
\* and the first > or " after it.
OpenAt(line) ==
  CHOOSE i \in 1..Len(line) :
    /\ line[i] \in {"<", "\""}
    /\ \A k \in 1..(i - 1) : line[k] \notin {"<", "\""}

CloseAt(line) ==
  CHOOSE i \in (OpenAt(line) + 1)..Len(line) :
    /\ line[i] \in {">", "\""}
    /\ \A k \in (OpenAt(line) + 1)..(i - 1) : line[k] \notin {">", "\""}

\* '#include ', the target between the delimiters of the opening style, and
\* the text of the line after the closing delimiter.
ExpectedLine(line) ==
  HASH_INCLUDE \o <<" ", line[OpenAt(line)]>>
    \o Strip(SubSeq(line, OpenAt(line) + 1, CloseAt(line) - 1))
    \o <<IF line[OpenAt(line)] = "<" THEN ">" ELSE "\"">>
    \o SubSeq(line, CloseAt(line) + 1, Len(line))

\* Line k starts a batch (a block, in the output).
BatchStart(ls, k) ==
  /\ IsIncludeLine(ls[k])
  /\ \A j \in 1..(k - 1) : ~(IsIncludeLine(ls[j]) /\ SameBatch(ls, j, k))

\* The number of the batch of directive line i, counted from the top.
BatchNo(ls, i) == Cardinality({k \in 1..i : BatchStart(ls, k)})

C10_OwnHeaderAsWritten ==
  Returned =>
    \A i, j \in 1..Len(new_lines) :
      ( /\ IsIncludeLine(new_lines[i])
        /\ IsIncludeLine(new_lines[j])
        /\ IF i < j THEN SameBlock(new_lines, i, j)
           ELSE SameBlock(new_lines, j, i)
        /\ classifier[<<HFile(new_lines[i]).name, HFile(new_lines[i]).is_system>>]
             \in OwnHeaderTypes
        /\ classifier[<<HFile(new_lines[j]).name, HFile(new_lines[j]).is_system>>]
             = CPP_SYS_HEADER )
      => (i < j <=> is_own_header(filename, HFile(new_lines[i]).name))

\* sort_includes without the check of the include style: the loop body on
\* a well-formed directive, the loop body, the loop and the code after it.
\* None of them reads what is on disk.
BlindInclude(loc, hkey, hfile) ==
  IF hkey \in DOMAIN loc.includes
  THEN IF HFile_repr(hfile) = HFile_repr(loc.includes[hkey]) THEN loc
       ELSE [loc EXCEPT !.exc = "RuntimeError"]
  ELSE [loc EXCEPT
          !.includes = [k \in DOMAIN @ \cup {hkey} |->
                          IF k = hkey THEN hfile ELSE @[k]]]

BlindBody(fname, loc, line) ==
  IF ~IsIncludeLine(line) THEN OtherBranch(fname, loc, line)
  ELSE IF ~HFile(line).ok THEN [loc EXCEPT !.exc = "Exception"]
  ELSE BlindInclude(StartBatch(loc), KeyOf(line), HFile(line))

RECURSIVE BlindLoop(_, _, _, _)
BlindLoop(fname, ls, loc, i) ==
  IF loc.exc # "" THEN loc
  ELSE IF i > Len(ls) THEN FlushAtEnd(fname, loc)
  ELSE BlindLoop(fname, ls, BlindBody(fname, loc, ls[i]), i + 1)

\* Line i of the input is the first occurrence of its target in its batch
\* and has the wrong style: angled and a project file, or quoted and none.
WrongStyle(i) ==
  /\ IsIncludeLine(lines[i])
  /\ HFile(lines[i]).ok
  /\ ~Repeats(lines, i)
  /\ is_project_file(HFile(lines[i]).name) = HFile(lines[i]).is_system

StyleWarning(i) ==
  [level |-> "WARNING",
   message |-> IF HFile(lines[i]).is_system THEN FMT_PROJECT_FILE
               ELSE FMT_SYSTEM_FILE,
   args |-> CitesLine(i)]

\* The style warnings for the lines i..n of the input, in input order.
RECURSIVE StyleWarnings(_, _)
StyleWarnings(i, n) ==
  IF i > n THEN <<>>
  ELSE (IF WrongStyle(i) THEN <<StyleWarning(i)>> ELSE <<>>)
         \o StyleWarnings(i + 1, n)

IsStyleWarning(entry) == entry.message \in {FMT_PROJECT_FILE, FMT_SYSTEM_FILE}

\* C13: the check of the include style is diagnostics only: the returned
\* lines are those of the sorter without the check, whatever is on disk,
\* and the style warnings written are, in input order, one for each first
\* occurrence of a target in a batch that is angled and looks like a
\* project file or quoted and does not, citing its 1-based line number.
C13_StyleCheckDiagnosticsOnly ==
  /\ Returned =>
       new_lines = BlindLoop(filename, lines, InitialLocals(<<>>), 1).new_lines
  /\ pc = "raised" =>
       BlindLoop(filename, lines, InitialLocals(<<>>), 1).exc = exc
  /\ SelectSeq(stderr, IsStyleWarning) = StyleWarnings(1, lnum)

\* A returned call with a style warning, on a disk other than DISK.
C13_Witness ==
  /\ Returned
  /\ disk # DISK
  /\ Len(lines) = 2
  /\ WrongStyle(1)
  /\ ~WrongStyle(2)
  /\ IsIncludeLine(lines[2])
  /\ Len(new_lines) >= 3

\* The number of batches of the input.
NumBatches(ls) == Cardinality({k \in 1..Len(ls) : BatchStart(ls, k)})

BatchesWarning ==
  [level |-> "WARNING", message |-> FMT_BATCHES, args |-> <<filename>>]

\* C14: sort_includes writes the 'more than 1 batch' warning exactly once,
\* after all lines are processed, if and only if the input holds more than
\* one batch; the warning does not change the returned lines.
C14_BatchesWarning ==
  /\ pc # "returned" => \A k \in 1..Len(stderr) : stderr[k].message # FMT_BATCHES
  /\ Returned =>
       /\ Cardinality({k \in 1..Len(stderr) : stderr[k].message = FMT_BATCHES})
            = IF NumBatches(lines) > 1 THEN 1 ELSE 0
       /\ NumBatches(lines) > 1 => stderr[Len(stderr)] = BatchesWarning
       /\ new_lines
            = BlindLoop(filename, lines, InitialLocals(<<>>), 1).new_lines

\* A returned call on a file of two batches.
C14_Witness ==
  /\ Returned
  /\ NumBatches(lines) = 2
  /\ stderr # <<>>
  /\ stderr[Len(stderr)] = BatchesWarning

(***************************************************************************)
(* correct_spacing as a state machine: one call on one line.               *)
(***************************************************************************)

\* The longest line, in characters, built from SpacingChars.
MaxChars == 4

\* Whitespace, a word character, and the punctuation most rules look at.
SpacingChars == {" ", "\t", "a", ";", "/", "<", "="}

\* Longer lines for the rules about braces, keywords and operators.
LINE_if_brace   == <<"i", "f", "(", "a", ")", "{">>
LINE_else       == <<"}", "e", "l", "s", "e", "{">>
LINE_opers      == <<"a", "=", "=", "b", "|", "|", "c", ">", "=", "d">>
LINE_comma_tab  == <<"a", " ", ",", "b", "\t">>
LINE_for_quote  == <<" ", "f", "o", "r", "(", "a", "=", "'", "b", "'">>

SpacingLines ==
  SeqsUpTo(SpacingChars, MaxChars)
    \cup {LINE_a, LINE_a_post, LINE_if_brace, LINE_else, LINE_opers,
          LINE_comma_tab, LINE_for_quote}

\* sort_includes is not running.
NoSortIncludes ==
  /\ filename = <<>>
  /\ lines = <<>>
  /\ lnum = 0
  /\ in_batch = FALSE
  /\ includes = NoIncludes
  /\ includes_batches = 0
  /\ new_lines = <<>>

InitSpacing ==
  /\ a_line \in SpacingLines
  /\ result = <<>>
  /\ pc = "correct_spacing"
  /\ stderr = <<>>
  /\ exc = ""
  /\ ROOT = <<>>
  /\ classifier = <<>>
  /\ keys_order = <<>>
  /\ disk = DISK
  /\ NoSortIncludes
  /\ NoStylify

\* The call: correct_spacing(a_line) returns.
CorrectSpacing ==
  /\ pc = "correct_spacing"
  /\ result' = correct_spacing(a_line)
  /\ pc' = "spaced"
  /\ UNCHANGED <<filename, lines, ROOT, classifier, keys_order, disk, lnum,
                 in_batch, includes, includes_batches, new_lines, stderr, exc,
                 a_line, modules, no_edit, files, contents, stdin, stdout,
                 files_done>>

NextSpacing == CorrectSpacing

SpecSpacing == InitSpacing /\ [][NextSpacing]_vars

(***************************************************************************)
(* Properties of correct_spacing.                                          *)
(***************************************************************************)

Spaced == pc = "spaced"

\* C15: correct_spacing is idempotent: applied to the line it returned, it
\* returns that line again.
C15_SpacingIdempotent == Spaced => correct_spacing(result) = result

\* The characters of s that are not whitespace, in order.
NonSpace(s) == SelectSeq(s, LAMBDA c : ~IsSpace(c))

\* C16: correct_spacing only adds or removes whitespace: the characters of
\* the returned line that are not whitespace are those of the argument, in
\* the same order.
C16_OnlyWhitespaceChanges == Spaced => NonSpace(result) = NonSpace(a_line)

\* A call that both removed and added whitespace around other characters.
C16_Witness ==
  /\ Spaced
  /\ a_line = LINE_comma_tab
  /\ result = <<"a", ",", " ", "b">>

\* The position of the n-th character of s, counted from position i on,
\* that is not whitespace (0 if there is none).
RECURSIVE NthNonSpace(_, _, _)
NthNonSpace(s, n, i) ==
  IF i > Len(s) THEN 0
  ELSE IF IsSpace(s[i]) THEN NthNonSpace(s, n, i + 1)
  ELSE IF n = 1 THEN i
  ELSE NthNonSpace(s, n - 1, i + 1)

\* The two characters at i and i + 1 of a_line are next to each other in
\* the returned line.
StayTogether(i) ==
  NthNonSpace(result, Len(NonSpace(Upto(a_line, i + 1))), 1)
    = NthNonSpace(result, Len(NonSpace(Upto(a_line, i))), 1) + 1

\* C17: no whitespace goes between the two characters of an occurrence of
\* ==, !=, <=, >=, &&, >>, << or || in the argument.
C17_OperatorsStayIntact ==
  Spaced => \A i \in 1..Len(a_line) : OperAt(a_line, i) => StayTogether(i)

\* C18: the returned line does not end with a whitespace character.
C18_NoTrailingWhitespace ==
  Spaced => (result = <<>> \/ ~IsSpace(result[Len(result)]))

(***************************************************************************)
(* stylify_lines, stylify_file and stylify.  args.show_diff, args.filename *)
(* and --quiet are not given, and every path in `files` can be opened.     *)
(***************************************************************************)

\* _STYLE_MODULES
STYLE_MODULES == {"sort_includes", "correct_spacing"}

\* The orders in which "for mod in args.modules" can visit a set of modules.
ModuleOrders ==
  { <<"sort_includes">>, <<"correct_spacing">>,
    <<"sort_includes", "correct_spacing">>,
    <<"correct_spacing", "sort_includes">> }

FMT_STYLIFYING == "Stylifying file %s ..."
FMT_SKIPPING   == "Skipping file %s ..."
FMT_DONE       == "Done with file %s ..."
FMT_WRITING    == "Writing changes back to filepath %s ..."
FMT_NO_CHANGES == "No changes for %s ..."

\* info(message, *args): the stream after the write.
info(stream, message, msg_args) ==
  Append(stream, [level |-> "INFO", message |-> message, args |-> msg_args])

\* What sort_includes leaves to stylify_lines: the returned lines, what it
\* wrote to sys.stderr and the exception it raised.
AfterSortIncludes(loc) ==
  [lines |-> loc.new_lines, stderr |-> loc.stderr, exc |-> loc.exc]

\* The body of the loop of stylify_lines for the module mod.
ApplyModule(mod, fname, st) ==
  IF mod = "sort_includes"
  THEN AfterSortIncludes(RunLoop(fname, st.lines, InitialLocals(st.stderr), 0))
  ELSE IF mod = "correct_spacing"
  THEN [st EXCEPT !.lines = [i \in DOMAIN @ |-> correct_spacing(@[i])]]
  ELSE st

\* The loop of stylify_lines from the k-th module on; an exception ends it.
RECURSIVE StylifyLinesFrom(_, _, _, _)
StylifyLinesFrom(mods, k, fname, st) ==
  IF st.exc # "" \/ k > Len(mods) THEN st
  ELSE StylifyLinesFrom(mods, k + 1, fname, ApplyModule(mods[k], fname, st))

\* stylify_lines(args, filename, lines) with args.modules visited in the
\* order mods: the styled lines, sys.stderr after it, and the exception.
stylify_lines(mods, fname, some_lines, stream) ==
  StylifyLinesFrom(mods, 1, fname,
                   [lines |-> some_lines, stderr |-> stream, exc |-> ""])

\* The path that stands for sys.stdin.
DASH == <<"-">>

\* old_content, as read from sys.stdin or from the file.
OldContent(w, filepath) ==
  IF filepath = DASH THEN w.stdin ELSE w.contents[filepath]

\* sys.stdin.read() leaves nothing to read.
AfterRead(w, filepath) ==
  IF filepath = DASH THEN [w EXCEPT !.stdin = <<>>] ELSE w

\* "if new_content != old_content: ... else: ..."
WriteChanges(w, filepath, old_content, new_content, noedit) ==
  IF new_content # old_content
  THEN IF filepath = DASH
       THEN [w EXCEPT !.stdout = Append(@, new_content)]
       ELSE IF ~noedit
       THEN [w EXCEPT !.stderr = info(@, FMT_WRITING, <<filepath>>),
                      !.contents = [@ EXCEPT ![filepath] = new_content]]
       ELSE w
  ELSE [w EXCEPT !.stderr = info(@, FMT_NO_CHANGES, <<filepath>>)]

\* stylify_file after the call of stylify_lines, which left st.
AfterStylifyLines(w, filepath, old_content, st, noedit) ==
  IF st.exc # ""
  THEN [w EXCEPT !.stderr = st.stderr, !.exc = st.exc]
  ELSE WriteChanges([w EXCEPT !.stderr = st.stderr], filepath, old_content,
                    Join(<<"\n">>, st.lines), noedit)

\* stylify_file(args, filepath) on w = [contents, stdin, stdout, stderr,
\* exc]: what it leaves; it raises w.exc when that is not "".
stylify_file(w, mods, noedit, filepath) ==
  AfterStylifyLines(AfterRead(w, filepath), filepath, OldContent(w, filepath),
                    stylify_lines(mods, filepath,
                                  Split(OldContent(w, filepath), "\n"),
                                  w.stderr),
                    noedit)

\* The try statement of stylify without its except clause.
TryStylifyFile_no_except(w, filepath) ==
  IF w.exc = "" THEN [w EXCEPT !.stderr = info(@, FMT_DONE, <<filepath>>)]
  ELSE w

\* "try: stylify_file(...) except RuntimeError: ... else: ...", where the
\* call left w.
TryStylifyFile(w, filepath) ==
  IF w.exc = "RuntimeError"
  THEN [w EXCEPT !.stderr = info(@, FMT_SKIPPING, <<filepath>>), !.exc = ""]
  ELSE IF w.exc = ""
  THEN [w EXCEPT !.stderr = info(@, FMT_DONE, <<filepath>>)]
  ELSE w

\* The body of the loop of stylify for the normalized path filepath.
StylifyOne(w, mods, noedit, filepath) ==
  TryStylifyFile(
    stylify_file([w EXCEPT !.stderr = info(@, FMT_STYLIFYING, <<filepath>>)],
                 mods, noedit, filepath),
    filepath)

\* The loop of stylify from the k-th entry of fs on; an exception ends it.
RECURSIVE StylifyFrom(_, _, _, _, _)
StylifyFrom(w, mods, noedit, fs, k) ==
  IF w.exc # "" \/ k > Len(fs) THEN w
  ELSE StylifyFrom(StylifyOne(w, mods, noedit, NormPath(fs[k])), mods, noedit,
                   fs, k + 1)

(***************************************************************************)
(* stylify as a state machine: one entry of `files` a step.                *)
(***************************************************************************)

\* The longest list of files.
MaxFiles == 2

FILE_dot_a_c == <<".", "/">> \o FILE_a_c

\* The paths given to stylify; two of them name the same file.
Paths == {FILE_a_c, FILE_dot_a_c, FILE_p_a_c, DASH}

NEWLINE == <<"\n">>

\* A file without directives.
CONTENT_code == LINE_code

\* One directive.
CONTENT_a == LINE_a

\* Directives that are not in the order of the sections.
CONTENT_unsorted == LINE_B_h \o NEWLINE \o LINE_a

\* A consistent and then an inconsistent repetition.
CONTENT_duplicate == LINE_a \o NEWLINE \o LINE_a \o NEWLINE \o LINE_a_quoted

\* Code, and then a directive the pattern does not match.
CONTENT_bad == <<"x", ";", "y">> \o NEWLINE \o LINE_bad

Contents ==
  {CONTENT_code, CONTENT_a, CONTENT_unsorted, CONTENT_duplicate, CONTENT_bad}

InitStylify ==
  /\ modules \in ModuleOrders
  /\ no_edit \in BOOLEAN
  /\ files \in SeqsUpTo(Paths, MaxFiles)
  /\ contents \in {c \in [{FILE_a_c, FILE_p_a_c} -> Contents] :
                     c[FILE_p_a_c] \in {CONTENT_code, CONTENT_unsorted}}
  /\ stdin = CONTENT_unsorted
  /\ stdout = <<>>
  /\ files_done = 0
  /\ stderr = <<>>
  /\ exc = ""
  /\ pc = "stylify"
  /\ ROOT = <<>>
  /\ keys_order = <<>>
  /\ disk = DISK
  /\ classifier = [p \in ClassifiedPairs(<<LINE_a, LINE_B_h, LINE_a_quoted>>)
                     |-> CpplintLike(p)]
  /\ NoSortIncludes
  /\ NoSpacing

World ==
  [contents |-> contents, stdin |-> stdin, stdout |-> stdout,
   stderr |-> stderr, exc |-> exc]

SetWorld(w) ==
  /\ contents' = w.contents
  /\ stdin' = w.stdin
  /\ stdout' = w.stdout
  /\ stderr' = w.stderr
  /\ exc' = w.exc

\* What the calls of stylify do not assign.
stylify_frame ==
  <<filename, lines, ROOT, classifier, keys_order, disk, lnum, in_batch,
    includes, includes_batches, new_lines, a_line, result, modules, no_edit,
    files>>

InFilesLoop == pc = "stylify" /\ files_done < Len(files)

\* "filepath = os.path.normpath(filepath)"
CurrentFile == NormPath(files[files_done + 1])

\* The exception stylify_file raises for the current file ("" for none).
Raised == stylify_file(World, modules, no_edit, CurrentFile).exc

\* One iteration of the loop of stylify.
IterateFiles ==
  \E w \in {StylifyOne(World, modules, no_edit, CurrentFile)} :
    /\ SetWorld(w)
    /\ files_done' = IF w.exc = "" THEN files_done + 1 ELSE files_done
    /\ pc' = IF w.exc = "" THEN "stylify" ELSE "raised"
    /\ UNCHANGED stylify_frame

\* stylify_file returns.
FileDone ==
  /\ InFilesLoop
  /\ Raised = ""
  /\ IterateFiles

\* stylify_file raises RuntimeError.
FileSkipped ==
  /\ InFilesLoop
  /\ Raised = "RuntimeError"
  /\ IterateFiles

\* stylify_file raises another exception.
FileFails ==
  /\ InFilesLoop
  /\ Raised \notin {"", "RuntimeError"}
  /\ IterateFiles

\* "else: stylify_file(args, '-')"
NoFiles ==
  /\ pc = "stylify"
  /\ files = <<>>
  /\ \E w \in {stylify_file(World, modules, no_edit, DASH)} :
       /\ SetWorld(w)
       /\ pc' = IF w.exc = "" THEN "returned" ELSE "raised"
  /\ UNCHANGED <<stylify_frame, files_done>>

\* The loop is over.
StylifyReturn ==
  /\ pc = "stylify"
  /\ files # <<>>
  /\ files_done = Len(files)
  /\ pc' = "returned"
  /\ UNCHANGED <<stylify_frame, contents, stdin, stdout, stderr, exc,
                 files_done>>

NextStylify ==
  \/ FileDone
  \/ FileSkipped
  \/ FileFails
  \/ NoFiles
  \/ StylifyReturn

SpecStylify == InitStylify /\ [][NextStylify]_vars

(***************************************************************************)
(* Properties of stylify.                                                  *)
(***************************************************************************)

\* What stylify_lines makes of the current file, when that is a file on
\* disk, with nothing on sys.stderr before.
CurrentStyled ==
  stylify_lines(modules, CurrentFile, Split(contents[CurrentFile], "\n"), <<>>)

OnDisk == InFilesLoop /\ CurrentFile # DASH

\* What the rest of the list comes to, from the contents c, the standard
\* input si and the standard output so: the contents, the standard output
\* and the exception that ends stylify.
RestOfFiles(c, si, so) ==
  [f \in {"contents", "stdout", "exc"} |->
     StylifyFrom([contents |-> c, stdin |-> si, stdout |-> so,
                  stderr |-> <<>>, exc |-> ""],
                 modules, no_edit, files, files_done + 2)[f]]

IsWarning(entry) == entry.level = "WARNING"

\* The loop goes on to the next entry of `files` with every file as it was.
SkipsOnlyCurrentFile ==
  /\ contents' = contents
  /\ stdout' = stdout
  /\ files_done' = files_done + 1
  /\ pc' = "stylify"
  /\ RestOfFiles(contents', stdin', stdout') = RestOfFiles(contents, stdin, stdout)

\* C11: a directive line the pattern does not match is fatal for its own
\* file only: the file is not written and stylify goes on to the next file
\* of the list.
C11_MalformedLineSkipsOnlyItsFile ==
  [][(OnDisk /\ CurrentStyled.exc = "Exception") => SkipsOnlyCurrentFile]_vars

\* C12: an inconsistent repetition is fatal for its own file only: the file
\* is not written, the warnings sort_includes wrote for it before the error
\* stay on sys.stderr, and the rest of the list is processed as it would be
\* without this file.
C12_InconsistentDuplicateSkipsOnlyItsFile ==
  [][(OnDisk /\ CurrentStyled.exc = "RuntimeError")
       => /\ SkipsOnlyCurrentFile
          /\ SelectSeq(stderr', IsWarning)
               = SelectSeq(stderr, IsWarning)
                   \o SelectSeq(CurrentStyled.stderr, IsWarning)]_vars

\* stylify returned after it skipped the first of two files for an
\* inconsistent repetition, with a warning before the error, and wrote the
\* second.
C12_Witness ==
  /\ pc = "returned"
  /\ Len(files) = 2
  /\ files[1] # DASH
  /\ files[2] # DASH
  /\ contents[NormPath(files[1])] = CONTENT_duplicate
  /\ \E j \in 3..Len(stderr) - 2 :
       /\ stderr[j - 1] = [level |-> "WARNING", message |-> FMT_CONSISTENT,
                           args |-> <<<<"a">>, NormPath(files[1]), 2, LINE_a>>]
       /\ stderr[j].level = "ERROR"
       /\ stderr[j + 1] = [level |-> "INFO", message |-> FMT_SKIPPING,
                           args |-> <<NormPath(files[1])>>]
       /\ stderr[j + 2] = [level |-> "INFO", message |-> FMT_STYLIFYING,
                           args |-> <<NormPath(files[2])>>]
  /\ stderr[Len(stderr) - 1] = [level |-> "INFO", message |-> FMT_WRITING,
                                args |-> <<NormPath(files[2])>>]

\* The order of the modules the other way round.
OtherOrder == [k \in 1..Len(modules) |-> modules[Len(modules) + 1 - k]]

OtherStyled ==
  stylify_lines(OtherOrder, CurrentFile, Split(contents[CurrentFile], "\n"), <<>>)

\* C19: with both modules enabled and no fatal error, the lines stylify_lines
\* returns for a file are the same in both orders of the modules.
C19_ModuleOrderIrrelevant ==
  (OnDisk /\ Len(modules) = 2 /\ CurrentStyled.exc = "" /\ OtherStyled.exc = "")
    => CurrentStyled.lines = OtherStyled.lines

====
